---- MODULE Spec2Model ----
(***************************************************************************)
(* msgpack::zone (include/msgpack/detail/cpp11_zone.hpp): a chunked bump   *)
(* allocator (chunk_list), a registry of finalizers (finalizer_array) and  *)
(* the zone that couples them.  The heap is modelled explicitly: a chunk   *)
(* or a finalizer array is a block with an address (its id), which ::free  *)
(* marks dead and ::malloc may hand out again.  An operation that reads,   *)
(* writes or frees a dead block has undefined behaviour: the model then    *)
(* either stops the program ("crashed") or goes on with the block's stale  *)
(* contents.                                                               *)
(***************************************************************************)
EXTENDS Integers, Sequences, FiniteSets, TLC

\* ------------------------------------------------------------ bounds
\* width of size_t in bits (arithmetic on sizes is modulo 2^WordBits)
WordBits == 5
\* number of chunk addresses the system allocator can hand out
MaxChunks == 3
\* number of finalizer-array addresses the system allocator can hand out
MaxArrays == 3
\* number of finalizers registered successfully in one run
MaxFins == 6
\* number of operations in one run of the two-arena program (Spec)
MaxSteps == 5
\* number of operations in one run of the one-arena program (SpecOne)
MaxStepsOne == 6
\* how far below the start of its chunk's storage m_ptr is followed
MaxUnder == 4
\* number of operations in one run of the registry program (SpecReg)
MaxStepsReg == 7

\* --------------------------------------------------- program constants
\* MSGPACK_ZONE_ALIGN: sizeof(int)
ALIGN == 4
\* sizeof(zone::finalizer): a function pointer and a void* (LP64)
SizeofFinalizer == 16
\* sizeof(zone::chunk): one chunk* (LP64)
SizeofChunk == 8

Mod == 2 ^ WordBits

Arenas == {"X", "Y"}
\* chunk sizes given to create()
ChunkSizes == {8}
\* chunk sizes given to create() by the one-arena programs
ChunkSizesOne == {0, 8}
\* sizes given to allocate_align / allocate_no_align
Sizes == {0, 1, 4, 12, Mod - 1}
\* sizeof(T) of the types given to allocate<T>
TSizes == {1, 4}

NULL == [c |-> 0, off |-> 0]
\* the address of a resource outside the zone, given to push_finalizer
EXT == [c |-> -1, off |-> 0]

\* a slot of a finalizer array that was never written
NoEnt == [fid |-> 0, kind |-> "uninit", data |-> NULL]

NoZone ==
    [st |-> "none", m_chunk_size |-> 0, m_free |-> 0, m_ptr |-> NULL,
     m_head |-> 0, m_array |-> 0, m_tail |-> 0, m_end |-> 0]

NoLast == [op |-> "init", z |-> "X", size |-> 0, ret |-> NULL, res |-> "ok",
           grew |-> FALSE, uptr |-> "none"]

VARIABLES
    pc,        \* "run", or how the program ended: "terminated" (std::terminate),
               \* "crashed" (undefined behaviour), "hung" (a loop that never ends)
    zones,     \* the fields of each zone; m_tail and m_end are counted in
               \* entries from m_array
    chunks,    \* heap: chunk address -> [live, cap, m_next]
    arrays,    \* heap: finalizer-array address -> [live, ents]
    invoked,   \* history: how often each registered finalizer was invoked
    nfid,      \* history: number of finalizers registered successfully
    own,       \* history: the arena each finalizer was registered on
    built,     \* history: finalizers whose object was constructed in place
    regd,      \* history: per arena, the registrations since its last clear()
    bump,      \* history: per arena, bytes handed out by allocate_no_align
               \* since create()/clear(), -1 once another operation came between
    swapped,   \* history: swap() was called
    calls,     \* the finalizers the last operation invoked, in order
    last,      \* the last operation, its arguments and its result; uptr: what
               \* became of the object of the unique_ptr given to it ("released"
               \* to the arena, "deleted" by the unique_ptr's destructor)
    steps      \* number of operations called so far

vars == <<pc, zones, chunks, arrays, invoked, nfid, own, built, regd, bump,
          swapped, calls, last, steps>>

finHist == <<invoked, nfid, own, built, regd>>

\* ------------------------------------------------------------ helpers
Min(S) == CHOOSE x \in S : \A y \in S : x <= y

Reverse(s) == [i \in 1..Len(s) |-> s[Len(s) + 1 - i]]

\* the outcomes of a step: one that has undefined behaviour (ub) may also crash,
\* one that cannot go on at all (fatal: it calls through a slot never written,
\* writes past a block, walks a cyclic chunk chain) only crashes
Outcomes(ub, fatal) ==
    IF fatal THEN {"crash"} ELSE IF ub THEN {"proceed", "crash"} ELSE {"proceed"}

\* ::malloc of a chunk: the lowest free address, 0 when there is none
NewChunkId(ch) ==
    LET F == {c \in 1..MaxChunks : ~ch[c].live}
    IN  IF F = {} THEN 0 ELSE Min(F)

\* ::realloc of a finalizer array: the lowest free address other than the old
NewArrayId(ar, old) ==
    LET F == {a \in 1..MaxArrays : ~ar[a].live /\ a # old}
    IN  IF F = {} THEN 0 ELSE Min(F)

\* usable bytes of the block ::malloc(sizeof(chunk) + sz) returns
Usable(sz) == ((SizeofChunk + sz) % Mod) - SizeofChunk

\* ((size)+((MSGPACK_ZONE_ALIGN)-1)) & ~((MSGPACK_ZONE_ALIGN)-1), in size_t
AlignUp(size) ==
    LET r == (size + (ALIGN - 1)) % Mod
    IN  r - (r % ALIGN)

\* while(sz < size) sz *= 2;  -1 when the loop never ends (sz has become 0)
RECURSIVE GrowTo(_, _, _)
GrowTo(sz, size, fuel) ==
    IF sz >= size THEN sz
    ELSE IF fuel = 0 THEN -1
    ELSE GrowTo((sz * 2) % Mod, size, fuel - 1)

\* the chunks reached from c along m_next (as the heap holds them now)
RECURSIVE ChainFrom(_, _, _)
ChainFrom(ch, c, fuel) ==
    IF c = 0 \/ fuel = 0 THEN <<>>
    ELSE <<c>> \o ChainFrom(ch, ch[c].m_next, fuel - 1)

Chain(ch, c) == ChainFrom(ch, c, MaxChunks + 1)

SeqSet(s) == {s[i] : i \in 1..Len(s)}

\* the entries in [m_array, m_tail) as the heap holds them now
EntAt(ar, a, i) ==
    IF a \in 1..MaxArrays /\ i \in 1..Len(ar[a].ents) THEN ar[a].ents[i] ELSE NoEnt

Pending(zn, ar) == [i \in 1..zn.m_tail |-> EntAt(ar, zn.m_array, i)]

PendingFids(zn, ar) == [i \in 1..zn.m_tail |-> EntAt(ar, zn.m_array, i).fid]

\* ------------------------------------------------------------ chunk_list
\* chunk_list::chunk_list(chunk_size), after a successful ::malloc at address id
NewChunkList(zn, id, chunk_size) ==
    [zn EXCEPT !.m_head = id, !.m_free = chunk_size, !.m_ptr = [c |-> id, off |-> 0]]

\* zone::allocate_expand(size); mok: the system allocator has memory
AllocateExpand(zn, ch, size, mok) ==
    LET sz == GrowTo(zn.m_chunk_size, size, WordBits + 1)
        id == NewChunkId(ch)
    IN  IF sz = -1
        THEN [zn |-> zn, ch |-> ch, ret |-> NULL, res |-> "hang", grew |-> FALSE, uptr |-> "none"]
        ELSE IF ~mok \/ id = 0
        THEN [zn |-> zn, ch |-> ch, ret |-> NULL, res |-> "null", grew |-> FALSE, uptr |-> "none"]
        ELSE [zn |-> [zn EXCEPT !.m_head = id,
                                !.m_free = (sz - size) % Mod,
                                !.m_ptr = [c |-> id, off |-> size]],
              ch |-> [ch EXCEPT ![id] = [live |-> TRUE, cap |-> Usable(sz),
                                         m_next |-> zn.m_head]],
              ret |-> [c |-> id, off |-> 0], res |-> "ptr", grew |-> TRUE]

\* (mutant of allocate_no_align: m_free <= size sends a request that fits
\* exactly to allocate_expand)
AllocateNoAlignR_OffByOne(zn, ch, size, mok) ==
    IF zn.m_free <= size
    THEN AllocateExpand(zn, ch, size, mok)
    ELSE [zn |-> [zn EXCEPT !.m_free = @ - size,
                            !.m_ptr = [@ EXCEPT !.off = @ + size]],
          ch |-> ch, ret |-> zn.m_ptr, res |-> "ptr", grew |-> FALSE, uptr |-> "none"]

\* zone::allocate_no_align(size)
AllocateNoAlignR(zn, ch, size, mok) ==
    IF zn.m_free < size
    THEN AllocateExpand(zn, ch, size, mok)
    ELSE [zn |-> [zn EXCEPT !.m_free = @ - size,
                            !.m_ptr = [@ EXCEPT !.off = @ + size]],
          ch |-> ch, ret |-> zn.m_ptr, res |-> "ptr", grew |-> FALSE, uptr |-> "none"]

\* zone::allocate_align(size)
AllocateAlignR(zn, ch, size, mok) == AllocateNoAlignR(zn, ch, AlignUp(size), mok)

\* zone::undo_allocate(size)
UndoAllocate(zn, size) ==
    [zn EXCEPT !.m_ptr = [@ EXCEPT !.off = @ - size],
               !.m_free = (@ + size) % Mod]

\* (mutant of chunk_list::clear(): keeps the head, frees the chunks behind it)
ChunkListClear_KeepHead(zn, ch) ==
    LET chain == Chain(ch, zn.m_head)
        n     == Len(chain)
        keep  == chain[1]
        freed == {chain[i] : i \in 2..n}
    IN  [zn |-> [zn EXCEPT !.m_head = keep, !.m_free = zn.m_chunk_size,
                           !.m_ptr = [c |-> keep, off |-> 0]],
         ch |-> [c \in 1..MaxChunks |->
                    IF c \in freed THEN [ch[c] EXCEPT !.live = FALSE]
                    ELSE IF c = keep THEN [ch[c] EXCEPT !.m_next = 0]
                    ELSE ch[c]],
         ub |-> \E i \in 1..n : ~ch[chain[i]].live,
         fatal |-> n > MaxChunks]

\* chunk_list::clear(chunk_size): frees every chunk but the last of the chain
ChunkListClear(zn, ch) ==
    LET chain == Chain(ch, zn.m_head)
        n     == Len(chain)
        keep  == chain[n]
        freed == {chain[i] : i \in 1..(n - 1)}
    IN  [zn |-> [zn EXCEPT !.m_head = keep, !.m_free = zn.m_chunk_size,
                           !.m_ptr = [c |-> keep, off |-> 0]],
         ch |-> [c \in 1..MaxChunks |->
                    IF c \in freed THEN [ch[c] EXCEPT !.live = FALSE]
                    ELSE IF c = keep THEN [ch[c] EXCEPT !.m_next = 0]
                    ELSE ch[c]],
         ub |-> \E i \in 1..n : ~ch[chain[i]].live,
         fatal |-> n > MaxChunks]

\* chunk_list::~chunk_list(): frees every chunk of the chain
ChunkListDestroy(zn, ch) ==
    LET chain == Chain(ch, zn.m_head)
        n     == Len(chain)
    IN  [ch |-> [c \in 1..MaxChunks |->
                    IF c \in SeqSet(chain) THEN [ch[c] EXCEPT !.live = FALSE]
                    ELSE ch[c]],
         ub |-> \E i \in 1..n : ~ch[chain[i]].live,
         fatal |-> n > MaxChunks]

\* ------------------------------------------------------- finalizer_array
\* (sizeof(finalizer) < 72/2) ? 72 / sizeof(finalizer) : 8
InitCap == IF SizeofFinalizer < 72 \div 2 THEN 72 \div SizeofFinalizer ELSE 8

\* finalizer::operator()() on an entry: undefined when the slot was never
\* written, when ~T() runs on a null or freed address, or runs a second time
BadInvoke(e, ch, inv) ==
    \/ e.kind = "uninit"
    \/ inv[e.fid] >= 1
    \/ e.kind = "obj" /\ (e.data.c \notin 1..MaxChunks \/ ~ch[e.data.c].live)

\* (mutant of call(): walks from m_array up to m_tail)
Call_Forward(zn, ar, ch, inv) ==
    LET es == Pending(zn, ar)
        fs == [i \in 1..Len(es) |-> es[i].fid]
    IN  [calls |-> fs,
         inv |-> [f \in 1..MaxFins |->
                    IF f \in SeqSet(fs) THEN Min({2, inv[f] + 1}) ELSE inv[f]],
         ub |-> \/ zn.m_tail > 0 /\ ~ar[zn.m_array].live
                \/ \E i \in 1..Len(es) : BadInvoke(es[i], ch, inv),
         fatal |-> \E i \in 1..Len(es) : es[i].kind = "uninit"]

\* finalizer_array::call(): (*(fin-1))() from m_tail down to m_array
Call(zn, ar, ch, inv) ==
    LET es == Reverse(Pending(zn, ar))
        fs == [i \in 1..Len(es) |-> es[i].fid]
    IN  [calls |-> fs,
         inv |-> [f \in 1..MaxFins |->
                    IF f \in SeqSet(fs) THEN Min({2, inv[f] + 1}) ELSE inv[f]],
         ub |-> \/ zn.m_tail > 0 /\ ~ar[zn.m_array].live
                \/ \E i \in 1..Len(es) : BadInvoke(es[i], ch, inv),
         fatal |-> \E i \in 1..Len(es) : es[i].kind = "uninit"]

\* (mutant of push_expand(): m_array = realloc(m_array, ...), so a failed
\* growth loses the array)
PushExpand_LosesArray(zn, ar, ent, rok) ==
    LET nused == zn.m_end
        nnext == IF nused = 0 THEN InitCap ELSE nused * 2
        old   == zn.m_array
        id    == NewArrayId(ar, old)
        ub    == old # 0 /\ ~ar[old].live
        tmp   == [i \in 1..nnext |->
                    IF i <= nused THEN EntAt(ar, old, i)
                    ELSE IF i = nused + 1 THEN ent ELSE NoEnt]
    IN  IF ~rok \/ id = 0
        THEN [zn |-> [zn EXCEPT !.m_array = 0], ar |-> ar, res |-> "bad_alloc",
              ub |-> ub, fatal |-> FALSE]
        ELSE [zn |-> [zn EXCEPT !.m_array = id, !.m_end = nnext,
                                !.m_tail = nused + 1],
              ar |-> [a \in 1..MaxArrays |->
                        IF a = id THEN [live |-> TRUE, ents |-> tmp]
                        ELSE IF a = old THEN [ar[a] EXCEPT !.live = FALSE]
                        ELSE ar[a]],
              res |-> "ok", ub |-> ub, fatal |-> FALSE]

\* (mutant of push_expand(): the entries of the old array are not carried over)
PushExpand_NoCopy(zn, ar, ent, rok) ==
    LET nused == zn.m_end
        nnext == IF nused = 0 THEN InitCap ELSE nused * 2
        old   == zn.m_array
        id    == NewArrayId(ar, old)
        ub    == old # 0 /\ ~ar[old].live
        tmp   == [i \in 1..nnext |-> IF i = nused + 1 THEN ent ELSE NoEnt]
    IN  IF ~rok \/ id = 0
        THEN [zn |-> zn, ar |-> ar, res |-> "bad_alloc", ub |-> ub, fatal |-> FALSE]
        ELSE [zn |-> [zn EXCEPT !.m_array = id, !.m_end = nnext,
                                !.m_tail = nused + 1],
              ar |-> [a \in 1..MaxArrays |->
                        IF a = id THEN [live |-> TRUE, ents |-> tmp]
                        ELSE IF a = old THEN [ar[a] EXCEPT !.live = FALSE]
                        ELSE ar[a]],
              res |-> "ok", ub |-> ub, fatal |-> FALSE]

\* finalizer_array::push_expand(func, data); rok: ::realloc has memory
PushExpand(zn, ar, ent, rok) ==
    LET nused == zn.m_end
        nnext == IF nused = 0 THEN InitCap ELSE nused * 2
        old   == zn.m_array
        id    == NewArrayId(ar, old)
        ub    == old # 0 /\ ~ar[old].live
        tmp   == [i \in 1..nnext |->
                    IF i <= nused THEN EntAt(ar, old, i)
                    ELSE IF i = nused + 1 THEN ent ELSE NoEnt]
    IN  IF ~rok \/ id = 0
        THEN [zn |-> zn, ar |-> ar, res |-> "bad_alloc", ub |-> ub, fatal |-> FALSE]
        ELSE [zn |-> [zn EXCEPT !.m_array = id, !.m_end = nnext,
                                !.m_tail = nused + 1],
              ar |-> [a \in 1..MaxArrays |->
                        IF a = id THEN [live |-> TRUE, ents |-> tmp]
                        ELSE IF a = old THEN [ar[a] EXCEPT !.live = FALSE]
                        ELSE ar[a]],
              res |-> "ok", ub |-> ub, fatal |-> FALSE]

\* (mutant of push(): the entry is written, m_tail is not advanced)
Push_NoAdvance(zn, ar, ent, rok) ==
    IF zn.m_tail = zn.m_end
    THEN PushExpand(zn, ar, ent, rok)
    ELSE LET a   == zn.m_array
             idx == zn.m_tail + 1
         IN  IF idx > Len(ar[a].ents)
             THEN [zn |-> zn, ar |-> ar, res |-> "ok", ub |-> TRUE, fatal |-> TRUE]
             ELSE [zn |-> zn,
                   ar |-> [ar EXCEPT ![a].ents[idx] = ent],
                   res |-> "ok", ub |-> ~ar[a].live, fatal |-> FALSE]

\* finalizer_array::push(func, data)
Push(zn, ar, ent, rok) ==
    IF zn.m_tail = zn.m_end
    THEN PushExpand(zn, ar, ent, rok)
    ELSE LET a   == zn.m_array
             idx == zn.m_tail + 1
         IN  IF idx > Len(ar[a].ents)
             THEN [zn |-> zn, ar |-> ar, res |-> "ok", ub |-> TRUE, fatal |-> TRUE]
             ELSE [zn |-> [zn EXCEPT !.m_tail = @ + 1],
                   ar |-> [ar EXCEPT ![a].ents[idx] = ent],
                   res |-> "ok", ub |-> ~ar[a].live, fatal |-> FALSE]

\* (mutant of the rollback: m_tail is left where push put it)
PopLast_Missing(zn) == zn

\* --m_finalizer_array.m_tail
PopLast(zn) == [zn EXCEPT !.m_tail = @ - 1]

\* (mutant of finalizer_array::clear(): m_tail is not reset)
FinalizerArrayClear_KeepTail(zn) == zn

\* finalizer_array::clear(): m_tail = m_array (after call())
FinalizerArrayClear(zn) == [zn EXCEPT !.m_tail = 0]

\* ::free(m_array) in finalizer_array::~finalizer_array()
FreeArray(zn, ar) ==
    [ar |-> [a \in 1..MaxArrays |->
                IF a = zn.m_array THEN [ar[a] EXCEPT !.live = FALSE] ELSE ar[a]],
     ub |-> zn.m_array # 0 /\ ~ar[zn.m_array].live]

\* ------------------------------------------------------------ the program
Init ==
    /\ pc = "run"
    /\ zones = [z \in Arenas |-> NoZone]
    /\ chunks = [c \in 1..MaxChunks |-> [live |-> FALSE, cap |-> 0, m_next |-> 0]]
    /\ arrays = [a \in 1..MaxArrays |-> [live |-> FALSE, ents |-> <<>>]]
    /\ invoked = [f \in 1..MaxFins |-> 0]
    /\ nfid = 0
    /\ own = [f \in 1..MaxFins |-> "none"]
    /\ built = {}
    /\ regd = [z \in Arenas |-> <<>>]
    /\ bump = [z \in Arenas |-> -1]
    /\ swapped = FALSE
    /\ calls = <<>>
    /\ last = NoLast
    /\ steps = 0

\* the program stops: only how it ended and the operation that ended it change
Stop(how, l) ==
    /\ pc' = how
    /\ last' = [l EXCEPT !.res = how]
    /\ UNCHANGED <<zones, chunks, arrays, finHist, bump, swapped, calls>>

\* zone::create(chunk_size); hok, cok: the system allocator has memory for the
\* zone's block and for the first chunk.  zone::zone is noexcept, so the
\* std::bad_alloc of chunk_list::chunk_list ends in std::terminate.
Create(z, chunk_size, hok, cok) ==
    LET id == NewChunkId(chunks)
        l  == [op |-> "create", z |-> z, size |-> chunk_size, ret |-> NULL,
               res |-> "ok", grew |-> FALSE, uptr |-> "none"]
    IN  /\ pc = "run"
        /\ zones[z].st = "none"
        /\ IF ~hok
           THEN /\ last' = [l EXCEPT !.res = "null"]
                /\ calls' = <<>>
                /\ UNCHANGED <<pc, zones, chunks, arrays, finHist, bump, swapped>>
           ELSE IF ~cok \/ id = 0
           THEN Stop("terminated", l)
           ELSE /\ zones' = [zones EXCEPT ![z] =
                        NewChunkList([NoZone EXCEPT !.st = "live",
                                                    !.m_chunk_size = chunk_size],
                                     id, chunk_size)]
                /\ chunks' = [chunks EXCEPT ![id] =
                        [live |-> TRUE, cap |-> Usable(chunk_size), m_next |-> 0]]
                /\ bump' = [bump EXCEPT ![z] = 0]
                /\ last' = l
                /\ calls' = <<>>
                /\ UNCHANGED <<pc, arrays, finHist, swapped>>

\* zone::allocate_no_align(size)
AllocateNoAlign(z, size, mok) ==
    LET r == AllocateNoAlignR(zones[z], chunks, size, mok)
        l == [op |-> "allocate_no_align", z |-> z, size |-> size, ret |-> r.ret,
              res |-> r.res, grew |-> r.grew, uptr |-> "none"]
    IN  /\ pc = "run"
        /\ zones[z].st = "live"
        /\ IF r.res = "hang"
           THEN Stop("hung", l)
           ELSE /\ zones' = [zones EXCEPT ![z] = r.zn]
                /\ chunks' = r.ch
                /\ bump' = [bump EXCEPT ![z] =
                        IF @ = -1 THEN -1 ELSE Min({@ + size, Mod})]
                /\ last' = l
                /\ calls' = <<>>
                /\ UNCHANGED <<pc, arrays, finHist, swapped>>

\* zone::allocate_align(size)
AllocateAlign(z, size, mok) ==
    LET r == AllocateAlignR(zones[z], chunks, size, mok)
        l == [op |-> "allocate_align", z |-> z, size |-> size, ret |-> r.ret,
              res |-> r.res, grew |-> r.grew, uptr |-> "none"]
    IN  /\ pc = "run"
        /\ zones[z].st = "live"
        /\ IF r.res = "hang"
           THEN Stop("hung", l)
           ELSE /\ zones' = [zones EXCEPT ![z] = r.zn]
                /\ chunks' = r.ch
                /\ bump' = [bump EXCEPT ![z] = -1]
                /\ last' = l
                /\ calls' = <<>>
                /\ UNCHANGED <<pc, arrays, finHist, swapped>>

\* a finalizer is now pending on arena z under the next id
Registered(z, isBuilt) ==
    /\ nfid' = nfid + 1
    /\ own' = [own EXCEPT ![nfid + 1] = z]
    /\ regd' = [regd EXCEPT ![z] = Append(@, nfid + 1)]
    /\ built' = IF isBuilt THEN built \cup {nfid + 1} ELSE built
    /\ UNCHANGED invoked

\* zone::push_finalizer(func, data); rok: ::realloc has memory
PushFinalizer(z, rok) ==
    LET p == Push(zones[z], arrays, [fid |-> nfid + 1, kind |-> "ext", data |-> EXT], rok)
        l == [op |-> "push_finalizer", z |-> z, size |-> 0, ret |-> NULL,
              res |-> p.res, grew |-> FALSE, uptr |-> "none"]
    IN  /\ pc = "run"
        /\ zones[z].st = "live"
        /\ nfid < MaxFins
        /\ \E o \in Outcomes(p.ub, p.fatal) :
             IF o = "crash"
             THEN Stop("crashed", l)
             ELSE /\ zones' = [zones EXCEPT ![z] = p.zn]
                  /\ arrays' = p.ar
                  /\ last' = l
                  /\ calls' = <<>>
                  /\ IF p.res = "ok" THEN Registered(z, FALSE) ELSE UNCHANGED finHist
                  /\ UNCHANGED <<pc, chunks, bump, swapped>>

\* (mutant of push_finalizer(unique_ptr<T>): obj.release() before the push)
UniquePtrAfter_ReleaseFirst(res) == "released"

\* the object of the unique_ptr parameter obj when push_finalizer(unique_ptr<T>)
\* is left: obj.release() is reached only when push returned; when push threw,
\* obj still owns the object and ~unique_ptr deletes it during unwinding
UniquePtrAfter(res) == IF res = "ok" THEN "released" ELSE "deleted"

\* zone::push_finalizer(msgpack::unique_ptr<T> obj), obj owning an object
\* outside the zone; rok: ::realloc has memory
PushFinalizerUniquePtr(z, rok) ==
    LET p == Push(zones[z], arrays, [fid |-> nfid + 1, kind |-> "own", data |-> EXT], rok)
        l == [op |-> "push_finalizer_unique_ptr", z |-> z, size |-> 0, ret |-> NULL,
              res |-> p.res, grew |-> FALSE, uptr |-> UniquePtrAfter(p.res)]
    IN  /\ pc = "run"
        /\ zones[z].st = "live"
        /\ nfid < MaxFins
        /\ \E o \in Outcomes(p.ub, p.fatal) :
             IF o = "crash"
             THEN Stop("crashed", l)
             ELSE /\ zones' = [zones EXCEPT ![z] = p.zn]
                  /\ arrays' = p.ar
                  /\ last' = l
                  /\ calls' = <<>>
                  /\ IF p.res = "ok" THEN Registered(z, FALSE) ELSE UNCHANGED finHist
                  /\ UNCHANGED <<pc, chunks, bump, swapped>>

\* zone::allocate<T>(args...) for a T of size tsize; ctor: "ok" when T's
\* constructor returns, "throw" when it throws.  When allocate_align returned
\* nullptr, new (x) T(args...) constructs at a null address: undefined, and the
\* builds either skip the construction and return nullptr or crash.
AllocateT(z, tsize, ctor, mok, rok) ==
    LET r  == AllocateAlignR(zones[z], chunks, tsize, mok)
        x  == r.ret
        p  == Push(r.zn, arrays, [fid |-> nfid + 1, kind |-> "obj", data |-> x], rok)
        atNull == p.res = "ok" /\ ctor = "ok" /\ x = NULL
        l  == [op |-> "allocate", z |-> z, size |-> tsize, ret |-> NULL,
               res |-> "ok", grew |-> r.grew, uptr |-> "none"]
    IN  /\ pc = "run"
        /\ zones[z].st = "live"
        /\ nfid < MaxFins
        /\ IF r.res = "hang"
           THEN Stop("hung", l)
           ELSE \E o \in Outcomes(p.ub \/ atNull, p.fatal) :
             IF o = "crash"
             THEN Stop("crashed", l)
             ELSE /\ chunks' = r.ch
                  /\ calls' = <<>>
                  /\ bump' = [bump EXCEPT ![z] = -1]
                  /\ UNCHANGED <<pc, swapped>>
                  /\ IF p.res = "bad_alloc"
                     THEN /\ zones' = [zones EXCEPT ![z] = UndoAllocate(r.zn, tsize)]
                          /\ arrays' = arrays
                          /\ last' = [l EXCEPT !.res = "bad_alloc"]
                          /\ UNCHANGED finHist
                     ELSE IF ctor = "throw"
                     THEN /\ zones' = [zones EXCEPT ![z] =
                                  UndoAllocate(PopLast(p.zn), tsize)]
                          /\ arrays' = p.ar
                          /\ last' = [l EXCEPT !.res = "ctor_exc"]
                          /\ UNCHANGED finHist
                     ELSE /\ zones' = [zones EXCEPT ![z] = p.zn]
                          /\ arrays' = p.ar
                          /\ last' = [l EXCEPT !.ret = x,
                                               !.res = IF x = NULL THEN "null" ELSE "ptr"]
                          /\ Registered(z, x # NULL)
                  /\ zones'[z].m_ptr.off >= -MaxUnder

\* zone::clear()
Clear(z) ==
    LET c1 == Call(zones[z], arrays, chunks, invoked)
        c2 == ChunkListClear(FinalizerArrayClear(zones[z]), chunks)
        l  == [op |-> "clear", z |-> z, size |-> 0, ret |-> NULL, res |-> "ok",
               grew |-> FALSE, uptr |-> "none"]
    IN  /\ pc = "run"
        /\ zones[z].st = "live"
        /\ \E o \in Outcomes(c1.ub \/ c2.ub, c1.fatal \/ c2.fatal) :
             IF o = "crash"
             THEN Stop("crashed", l)
             ELSE /\ zones' = [zones EXCEPT ![z] = c2.zn]
                  /\ chunks' = c2.ch
                  /\ invoked' = c1.inv
                  /\ calls' = c1.calls
                  /\ regd' = [regd EXCEPT ![z] = <<>>]
                  /\ bump' = [bump EXCEPT ![z] = 0]
                  /\ last' = l
                  /\ UNCHANGED <<pc, arrays, nfid, own, built, swapped>>

\* zone::destroy(z): ~zone() destroys m_finalizer_array, then m_chunk_list
Destroy(z) ==
    LET c1 == Call(zones[z], arrays, chunks, invoked)
        f  == FreeArray(zones[z], arrays)
        d  == ChunkListDestroy(zones[z], chunks)
        l  == [op |-> "destroy", z |-> z, size |-> 0, ret |-> NULL, res |-> "ok",
               grew |-> FALSE, uptr |-> "none"]
    IN  /\ pc = "run"
        /\ zones[z].st = "live"
        /\ \E o \in Outcomes(c1.ub \/ f.ub \/ d.ub, c1.fatal \/ d.fatal) :
             IF o = "crash"
             THEN Stop("crashed", l)
             ELSE /\ zones' = [zones EXCEPT ![z] = [NoZone EXCEPT !.st = "dead"]]
                  /\ arrays' = f.ar
                  /\ chunks' = d.ch
                  /\ invoked' = c1.inv
                  /\ calls' = c1.calls
                  /\ regd' = [regd EXCEPT ![z] = <<>>]
                  /\ bump' = [bump EXCEPT ![z] = -1]
                  /\ last' = l
                  /\ UNCHANGED <<pc, nfid, own, built, swapped>>

\* a.swap(b): std::swap(*this, o).  zone declares no copy or move operation and
\* its members declare destructors, so std::swap copies the members:
\* zone tmp(a); a = b; b = tmp; and then ~zone() runs on tmp, which holds a's
\* old m_finalizer_array and m_chunk_list.
Swap(a, b) ==
    LET tmp == zones[a]
        c1 == Call(tmp, arrays, chunks, invoked)
        f  == FreeArray(tmp, arrays)
        d  == ChunkListDestroy(tmp, chunks)
        l  == [op |-> "swap", z |-> a, size |-> 0, ret |-> NULL, res |-> "ok",
               grew |-> FALSE, uptr |-> "none"]
    IN  /\ pc = "run"
        /\ a # b
        /\ zones[a].st = "live"
        /\ zones[b].st = "live"
        /\ \E o \in Outcomes(c1.ub \/ f.ub \/ d.ub, c1.fatal \/ d.fatal) :
             IF o = "crash"
             THEN Stop("crashed", l)
             ELSE /\ zones' = [zones EXCEPT ![a] = zones[b], ![b] = tmp]
                  /\ arrays' = f.ar
                  /\ chunks' = d.ch
                  /\ invoked' = c1.inv
                  /\ calls' = c1.calls
                  /\ swapped' = TRUE
                  /\ bump' = [z \in Arenas |-> -1]
                  /\ last' = l
                  /\ UNCHANGED <<pc, nfid, own, built, regd>>

\* ------------------------------------------------------------ the callers
\* one more operation of a run of at most limit operations
Budget(limit) == steps < limit /\ steps' = steps + 1

\* the outcomes of the system allocator worth telling apart: it can fail only
\* where the operation calls it
MallocOutcomes(z, size) == IF zones[z].m_free < size THEN BOOLEAN ELSE {TRUE}

ReallocOutcomes(z) == IF zones[z].m_tail = zones[z].m_end THEN BOOLEAN ELSE {TRUE}

\* two arenas
Next ==
    \/ \E z \in Arenas, cs \in ChunkSizes, hok \in BOOLEAN, cok \in BOOLEAN :
          Budget(MaxSteps) /\ (cok \/ hok) /\ Create(z, cs, hok, cok)
    \/ \E z \in Arenas, n \in Sizes : \E mok \in MallocOutcomes(z, n) :
          Budget(MaxSteps) /\ AllocateNoAlign(z, n, mok)
    \/ \E z \in Arenas, n \in Sizes : \E mok \in MallocOutcomes(z, AlignUp(n)) :
          Budget(MaxSteps) /\ AllocateAlign(z, n, mok)
    \/ \E z \in Arenas, t \in TSizes, ctor \in {"ok", "throw"} :
          \E mok \in MallocOutcomes(z, AlignUp(t)), rok \in ReallocOutcomes(z) :
             Budget(MaxSteps) /\ AllocateT(z, t, ctor, mok, rok)
    \/ \E z \in Arenas : \E rok \in ReallocOutcomes(z) :
          Budget(MaxSteps) /\ PushFinalizer(z, rok)
    \/ \E z \in Arenas : Budget(MaxSteps) /\ Clear(z)
    \/ \E z \in Arenas : Budget(MaxSteps) /\ Destroy(z)
    \/ \E a, b \in Arenas : Budget(MaxSteps) /\ Swap(a, b)

Spec == Init /\ [][Next]_vars

\* one arena, longer runs
NextOne ==
    \/ \E cs \in ChunkSizesOne, hok \in BOOLEAN, cok \in BOOLEAN :
          Budget(MaxStepsOne) /\ (cok \/ hok) /\ Create("X", cs, hok, cok)
    \/ \E n \in Sizes : \E mok \in MallocOutcomes("X", n) :
          Budget(MaxStepsOne) /\ AllocateNoAlign("X", n, mok)
    \/ \E n \in Sizes : \E mok \in MallocOutcomes("X", AlignUp(n)) :
          Budget(MaxStepsOne) /\ AllocateAlign("X", n, mok)
    \/ \E t \in TSizes, ctor \in {"ok", "throw"} :
          \E mok \in MallocOutcomes("X", AlignUp(t)), rok \in ReallocOutcomes("X") :
             Budget(MaxStepsOne) /\ AllocateT("X", t, ctor, mok, rok)
    \/ \E rok \in ReallocOutcomes("X") :
          Budget(MaxStepsOne) /\ PushFinalizer("X", rok)
    \/ Budget(MaxStepsOne) /\ Clear("X")
    \/ Budget(MaxStepsOne) /\ Destroy("X")

SpecOne == Init /\ [][NextOne]_vars

\* one arena, the finalizer registry: runs long enough for the array to grow twice
NextReg ==
    \/ \E cs \in ChunkSizesOne, hok \in BOOLEAN, cok \in BOOLEAN :
          Budget(MaxStepsReg) /\ (cok \/ hok) /\ Create("X", cs, hok, cok)
    \/ \E t \in TSizes, ctor \in {"ok", "throw"} :
          \E mok \in MallocOutcomes("X", AlignUp(t)), rok \in ReallocOutcomes("X") :
             Budget(MaxStepsReg) /\ AllocateT("X", t, ctor, mok, rok)
    \/ \E rok \in ReallocOutcomes("X") :
          Budget(MaxStepsReg) /\ PushFinalizer("X", rok)
    \/ \E rok \in ReallocOutcomes("X") :
          Budget(MaxStepsReg) /\ PushFinalizerUniquePtr("X", rok)
    \/ Budget(MaxStepsReg) /\ Clear("X")
    \/ Budget(MaxStepsReg) /\ Destroy("X")

SpecReg == Init /\ [][NextReg]_vars

\* ------------------------------------------------------------ the claims
\* the step just taken was a call of op
Called(op) == steps' # steps /\ last'.op = op

Other(z) == IF z = "X" THEN "Y" ELSE "X"

\* C1: clear() on an arena invokes the finalizers registered on it since its
\* last clear() (allocate<T> and push_finalizer in any mix), last registered
\* first, and leaves the registry empty (m_tail == m_array) with m_array and
\* the capacity m_end - m_array unchanged.
C1_ClearInvokesInReverse ==
    [][Called("clear") /\ pc' = "run" =>
         LET z == last'.z
         IN  /\ calls' = Reverse(regd[z])
             /\ zones'[z].m_tail = 0
             /\ zones'[z].m_array = zones[z].m_array
             /\ zones'[z].m_end = zones[z].m_end
             /\ arrays' = arrays]_vars

\* C1 witness: a clear() that invoked three finalizers, of constructed
\* objects and of push_finalizer both
C1_Witness ==
    /\ last.op = "clear"
    /\ pc = "run"
    /\ calls = <<3, 2, 1>>
    /\ \E f \in 1..3 : f \in built
    /\ \E f \in 1..3 : f \notin built
    /\ zones[last.z].m_end = InitCap

\* C2: over allocate<T>, push_finalizer, clear() and a final destroy on one
\* arena, a finalizer is invoked exactly once: not at all while it is
\* registered and no clear() or destroy has followed, once from the first
\* clear() or destroy on, never twice.
C2_InvokedExactlyOnce ==
    \A f \in 1..nfid :
       IF zones[own[f]].st = "live" /\ f \in SeqSet(regd[own[f]])
       THEN invoked[f] = 0
       ELSE invoked[f] = 1

\* C2 witness: the arena is destroyed; one finalizer was invoked by a
\* clear() before, another by the destruction
C2_Witness ==
    /\ zones["X"].st = "dead"
    /\ last.op = "destroy"
    /\ nfid = 2
    /\ calls = <<2>>
    /\ invoked[1] = 1

\* C3: swap(X, Y) invokes no finalizer and loses none: no finalizer runs
\* during the call, and the finalizers pending in X before are pending in Y
\* afterwards (and the other way round), none of them invoked yet.
C3_SwapInvokesNoFinalizer ==
    [][Called("swap") /\ pc' = "run" =>
         LET a == last'.z
             b == Other(a)
         IN  /\ calls' = <<>>
             /\ invoked' = invoked
             /\ PendingFids(zones'[b], arrays') = PendingFids(zones[a], arrays)
             /\ PendingFids(zones'[a], arrays') = PendingFids(zones[b], arrays)]_vars

\* C4: swap(X, Y) exchanges chunk lists, finalizer storage and chunk sizes and
\* releases nothing: every chunk and finalizer array live before is live
\* after, and each arena's head chunk is the other's former head, still live.
C4_SwapReleasesNothing ==
    [][Called("swap") /\ pc' = "run" =>
         LET a == last'.z
             b == Other(a)
         IN  /\ \A c \in 1..MaxChunks : chunks[c].live => chunks'[c].live
             /\ \A r \in 1..MaxArrays : arrays[r].live => arrays'[r].live
             /\ zones'[a] = zones[b]
             /\ zones'[b] = zones[a]
             /\ chunks'[zones'[a].m_head].live
             /\ chunks'[zones'[b].m_head].live]_vars

\* C5: in any reachable state allocate_align returns an address whose offset
\* from the start of its chunk's storage is a multiple of MSGPACK_ZONE_ALIGN.
C5_AllocateAlignIsAligned ==
    last.op = "allocate_align" /\ last.res = "ptr" => last.ret.off % ALIGN = 0

\* C6: when allocate<T> fails because T's constructor throws, the pending
\* finalizers afterwards are the ones pending before the call, in the same
\* order, and no finalizer was registered for the failed object.
C6_CtorThrowKeepsPending ==
    [][Called("allocate") /\ pc' = "run" /\ last'.res = "ctor_exc" =>
         LET z == last'.z
         IN  /\ Pending(zones'[z], arrays') = Pending(zones[z], arrays)
             /\ nfid' = nfid
             /\ regd' = regd]_vars

\* C6 witness: a constructor threw while the finalizer of an earlier,
\* constructed object was pending; the entry pushed for the failed object
\* (still in slot 2 of the array) is no longer pending
C6_Witness ==
    /\ last.op = "allocate"
    /\ last.res = "ctor_exc"
    /\ pc = "run"
    /\ zones[last.z].m_tail = 1
    /\ EntAt(arrays, zones[last.z].m_array, 1).fid \in built
    /\ EntAt(arrays, zones[last.z].m_array, 2).kind = "obj"

\* C7: when allocate<T> fails (the registration throws or the constructor
\* throws) and the bytes came from the current head without growth, m_ptr and
\* m_free are afterwards what they were before the call, for every sizeof(T).
C7_FailedAllocateReturnsBytes ==
    [][/\ Called("allocate")
       /\ pc' = "run"
       /\ last'.res \in {"bad_alloc", "ctor_exc"}
       /\ zones[last'.z].m_free >= AlignUp(last'.size)
       => /\ zones'[last'.z].m_ptr = zones[last'.z].m_ptr
          /\ zones'[last'.z].m_free = zones[last'.z].m_free]_vars

\* C8: every pending finalizer registered by allocate<T> refers to the address
\* of an object that was constructed in the arena, never to a null address.
C8_PendingRefersToObject ==
    \A z \in Arenas :
       zones[z].st = "live" =>
          \A i \in 1..zones[z].m_tail :
             LET e == EntAt(arrays, zones[z].m_array, i)
             IN  e.kind = "obj" => e.data # NULL /\ e.fid \in built

\* C9: when the system allocator cannot supply a block create() needs, create
\* returns the failure value and the program goes on, with no arena built;
\* and a failed growth chunk makes allocate_align / allocate_no_align return
\* the failure value with the arena unchanged.
C9_AllocatorFailureIsReported ==
    [][/\ Called("create") =>
             /\ pc' = "run"
             /\ last'.res \in {"ok", "null"}
             /\ last'.res = "null" => zones' = zones /\ chunks' = chunks
       /\ (Called("allocate_align") \/ Called("allocate_no_align")) /\ last'.res = "null" =>
             zones' = zones /\ chunks' = chunks]_vars

\* C10: on a freshly created or freshly cleared arena, while the sizes given
\* to allocate_no_align add up to at most the chunk size, each call returns
\* the head chunk's storage start plus the sum of the sizes before it (so the
\* first returns the start, each later one the previous pointer plus the
\* previous size, and the regions do not overlap) and no chunk is added.
\* Unless a swap() has left the arena with freed chunks, the head is moreover
\* the live chunk of the construction and the regions lie inside its storage.
C10_BumpSequence ==
    [][Called("allocate_no_align")
       /\ bump[last'.z] >= 0
       /\ bump[last'.z] + last'.size <= zones[last'.z].m_chunk_size
       => LET z == last'.z
              h == zones[z].m_head
          IN  /\ last'.res = "ptr"
              /\ ~last'.grew
              /\ last'.ret = [c |-> h, off |-> bump[z]]
              /\ zones'[z].m_head = h
              /\ zones'[z].m_ptr = [c |-> h, off |-> bump[z] + last'.size]
              /\ chunks' = chunks
              /\ ~swapped =>
                    /\ chunks[h].live
                    /\ chunks[h].m_next = 0
                    /\ bump[z] + last'.size <= chunks[h].cap]_vars

\* C10 witness: on an arena that was cleared (its finalizer has run), the
\* second allocate_no_align of a run fills the chunk exactly
C10_Witness ==
    /\ last.op = "allocate_no_align"
    /\ last.res = "ptr"
    /\ last.size = 4
    /\ last.ret.off = 4
    /\ bump[last.z] = zones[last.z].m_chunk_size
    /\ ~swapped
    /\ invoked[1] = 1

\* the capacities allocate_expand can choose for a chunk size cs
Doublings(cs) == {cs * (2 ^ k) : k \in 0..WordBits}

C12_ClearKeepsOriginalChunk ==
    [][/\ Called("clear") /\ pc' = "run" =>
             LET z     == last'.z
                 chain == Chain(chunks, zones[z].m_head)
                 orig  == chain[Len(chain)]
             IN  /\ chunks[orig].m_next = 0
                 /\ zones'[z].m_head = orig
                 /\ Chain(chunks', zones'[z].m_head) = <<orig>>
                 /\ chunks'[orig].live
                 /\ \A i \in 1..(Len(chain) - 1) :
                       chunks[chain[i]].live /\ ~chunks'[chain[i]].live
                 /\ \A c \in 1..MaxChunks :
                       c \notin SeqSet(chain) => chunks'[c] = chunks[c]
                 /\ zones'[z].m_ptr = [c |-> orig, off |-> 0]
                 /\ zones'[z].m_free = zones[z].m_chunk_size
                 /\ zones'[z].m_chunk_size <= chunks'[orig].cap
       /\ /\ Called("allocate_no_align")
          /\ last.op = "clear" /\ pc = "run"
          /\ last'.z = last.z
          /\ last'.size <= zones[last.z].m_chunk_size
          => /\ last'.res = "ptr"
             /\ ~last'.grew
             /\ last'.ret = [c |-> zones[last.z].m_head, off |-> 0]]_vars

\* C12 witness: the third operation of the run is a clear() that freed a
\* chunk added by growth and kept the first chunk
C12_Witness ==
    /\ last.op = "clear"
    /\ pc = "run"
    /\ steps = 3
    /\ \E c \in 1..MaxChunks :
          /\ c # zones[last.z].m_head
          /\ ~chunks[c].live
          /\ chunks[c].m_next = zones[last.z].m_head
    /\ chunks[zones[last.z].m_head].live
    /\ zones[last.z].m_free = zones[last.z].m_chunk_size

\* C13: in every state reached by allocate_align, allocate_no_align,
\* allocate<T> (successful or failed), clear and swap, m_ptr lies within the
\* storage of the head chunk, which is a live block, and m_free is the number
\* of bytes from m_ptr to the end of that storage.
C13_PtrInsideHead ==
    \A z \in Arenas :
       zones[z].st = "live" /\ pc = "run" =>
          LET h == zones[z].m_head
          IN  /\ h \in 1..MaxChunks
              /\ chunks[h].live
              /\ zones[z].m_ptr.c = h
              /\ zones[z].m_ptr.off >= 0
              /\ zones[z].m_ptr.off <= chunks[h].cap
              /\ zones[z].m_ptr.off + zones[z].m_free = chunks[h].cap

\* C14: from the construction of an arena to its destruction, after every
\* operation (allocation, failed growth, clear, swap) its chunk list is
\* non-empty, a finite chain without a cycle that ends in a chunk with no
\* back-link, made of live chunks only, and its head is the chunk m_ptr
\* allocates from.
C14_ChunkListWellFormed ==
    \A z \in Arenas :
       zones[z].st = "live" /\ pc = "run" =>
          LET chain == Chain(chunks, zones[z].m_head)
          IN  /\ Len(chain) >= 1
              /\ Len(chain) <= MaxChunks
              /\ Cardinality(SeqSet(chain)) = Len(chain)
              /\ \A i \in 1..Len(chain) : chunks[chain[i]].live
              /\ chunks[chain[Len(chain)]].m_next = 0
              /\ zones[z].m_ptr.c = zones[z].m_head

\* C18: every call of allocate_no_align(size) or allocate_align(size) comes
\* to an end, with a pointer or the failure value, for every chunk size and
\* every size a size_t holds: the program is never left in the doubling loop
\* of allocate_expand.
C18_AllocationTerminates ==
    last.op \in {"allocate_no_align", "allocate_align"} => pc # "hung"

\* C19: a successful allocation (allocate_no_align, allocate_align, allocate<T>)
\* returns a region of at least the requested bytes inside one live chunk of
\* the arena, and the bytes from the returned address up to the new m_ptr,
\* which no later call hands out again, cover the request; a failed
\* allocate<T> that was served from the head does not move m_ptr back below
\* where it stood, so that regions handed out before stay out of reach.
C19_RegionsValidAndDisjoint ==
    [][/\ /\ \/ Called("allocate_no_align")
             \/ Called("allocate_align")
             \/ Called("allocate")
          /\ pc' = "run"
          /\ last'.res = "ptr"
          => LET z == last'.z
                 r == last'.ret
             IN  /\ r.c \in SeqSet(Chain(chunks', zones'[z].m_head))
                 /\ chunks'[r.c].live
                 /\ r.off >= 0
                 /\ r.off + last'.size <= chunks'[r.c].cap
                 /\ zones'[z].m_ptr.c = r.c
                 /\ zones'[z].m_ptr.off >= r.off + last'.size
                 /\ ~last'.grew => r = zones[z].m_ptr
                 /\ last'.grew => ~chunks[r.c].live /\ r.off = 0
       /\ /\ Called("allocate")
          /\ pc' = "run"
          /\ last'.res \in {"bad_alloc", "ctor_exc"}
          /\ ~last'.grew
          => /\ zones'[last'.z].m_ptr.c = zones[last'.z].m_ptr.c
             /\ zones'[last'.z].m_ptr.off >= zones[last'.z].m_ptr.off]_vars

\* the operations that push onto the finalizer registry
CalledPush ==
    \/ Called("push_finalizer")
    \/ Called("push_finalizer_unique_ptr")
    \/ Called("allocate")

\* array, tail and end of arena z, and every entry of every array, are after
\* the step what they were before it
RegistryUnchanged(z) ==
    /\ zones'[z].m_array = zones[z].m_array
    /\ zones'[z].m_tail = zones[z].m_tail
    /\ zones'[z].m_end = zones[z].m_end
    /\ arrays' = arrays

\* C15: in every state of the finalizer registry (after pushes, growth, failed
\* growth, the rollback of the last entry by a failed allocate<T>, clear),
\* array <= tail <= end holds, the array is a live block of end entries, and
\* the entries in [array, tail) are exactly the finalizers registered and not
\* yet invoked or rolled back, in the order of their registration.
C15_RegistryHoldsPending ==
    \A z \in Arenas :
       zones[z].st = "live" /\ pc = "run" =>
          LET zn == zones[z]
          IN  /\ 0 <= zn.m_tail
              /\ zn.m_tail <= zn.m_end
              /\ zn.m_array = 0 <=> zn.m_end = 0
              /\ zn.m_array # 0 =>
                    /\ arrays[zn.m_array].live
                    /\ Len(arrays[zn.m_array].ents) = zn.m_end
              /\ PendingFids(zn, arrays) = regd[z]
              /\ \A i \in 1..zn.m_tail :
                    /\ EntAt(arrays, zn.m_array, i).kind # "uninit"
                    /\ invoked[EntAt(arrays, zn.m_array, i).fid] = 0
              /\ \A i, j \in 1..zn.m_tail :
                    i < j => EntAt(arrays, zn.m_array, i).fid
                                < EntAt(arrays, zn.m_array, j).fid

\* C15 witness: the array has grown to twice its first capacity, five
\* finalizers are pending, and the slot after them still holds the entry of
\* an allocate<T> that was rolled back
C15_Witness ==
    /\ pc = "run"
    /\ zones["X"].m_end = 2 * InitCap
    /\ zones["X"].m_tail = InitCap + 1
    /\ EntAt(arrays, zones["X"].m_array, InitCap + 2).kind = "obj"
    /\ last.res = "ctor_exc"

\* C16: a push on a full registry (tail == end) that does not register its
\* finalizer has failed with the allocation failure of the system allocator,
\* which reaches the caller (std::bad_alloc out of push_finalizer and out of
\* allocate<T>), and the registry is unchanged: array, tail, end and every
\* entry are as before the call, and no finalizer was invoked.
C16_FailedPushLeavesRegistry ==
    [][/\ /\ Called("push_finalizer") \/ Called("push_finalizer_unique_ptr")
          /\ pc' = "run"
          /\ zones[last'.z].m_tail = zones[last'.z].m_end
          /\ nfid' = nfid
          => /\ last'.res = "bad_alloc"
             /\ RegistryUnchanged(last'.z)
             /\ calls' = <<>>
             /\ invoked' = invoked
             /\ regd' = regd
       /\ /\ CalledPush
          /\ pc' = "run"
          /\ last'.res = "bad_alloc"
          => /\ zones[last'.z].m_tail = zones[last'.z].m_end
             /\ RegistryUnchanged(last'.z)
             /\ calls' = <<>>
             /\ invoked' = invoked
             /\ regd' = regd
             /\ nfid' = nfid]_vars

\* C16 witness: push_finalizer failed on a registry full of pending entries
C16_Witness ==
    /\ last.op = "push_finalizer"
    /\ last.res = "bad_alloc"
    /\ pc = "run"
    /\ zones[last.z].m_tail = InitCap
    /\ zones[last.z].m_end = InitCap
    /\ PendingFids(zones[last.z], arrays) = <<1, 2, 3, 4>>
    /\ \A f \in 1..4 : invoked[f] = 0

\* C17: a push that registers its finalizer on a registry with tail == end
\* grows the capacity to the initial constant (72 / sizeof(finalizer), or 8)
\* when it was 0 and to exactly twice the old capacity otherwise; the entries
\* registered before are kept in their order, the new entry is the last one,
\* and tail is the old count plus one.  A push with tail < end changes neither
\* the capacity nor the array, nor any slot but the one it appends to.
C17_PushGrowsGeometrically ==
    [][CalledPush /\ pc' = "run" /\ nfid' = nfid + 1 =>
         LET zn  == zones[last'.z]
             zn2 == zones'[last'.z]
         IN  /\ zn2.m_tail = zn.m_tail + 1
             /\ SubSeq(Pending(zn2, arrays'), 1, zn.m_tail) = Pending(zn, arrays)
             /\ Pending(zn2, arrays')[zn2.m_tail].fid = nfid + 1
             /\ IF zn.m_tail = zn.m_end
                THEN /\ zn2.m_end = IF zn.m_end = 0
                                    THEN (IF SizeofFinalizer < 36
                                          THEN 72 \div SizeofFinalizer ELSE 8)
                                    ELSE 2 * zn.m_end
                     /\ arrays'[zn2.m_array].live
                     /\ Len(arrays'[zn2.m_array].ents) = zn2.m_end
                ELSE /\ zn2.m_end = zn.m_end
                     /\ zn2.m_array = zn.m_array
                     /\ \A a \in 1..MaxArrays :
                           /\ arrays'[a].live = arrays[a].live
                           /\ Len(arrays'[a].ents) = Len(arrays[a].ents)
                           /\ \A i \in 1..Len(arrays[a].ents) :
                                 (a # zn.m_array \/ i # zn.m_tail + 1)
                                    => arrays'[a].ents[i] = arrays[a].ents[i]]_vars

\* C17 witness: the sixth operation of the run is the push that doubled the
\* capacity; the four entries of the old array come first, the new one last
C17_Witness ==
    /\ steps = 6
    /\ pc = "run"
    /\ last.op \in {"push_finalizer", "push_finalizer_unique_ptr", "allocate"}
    /\ zones["X"].m_end = 2 * InitCap
    /\ zones["X"].m_tail = InitCap + 1
    /\ PendingFids(zones["X"], arrays) = <<1, 2, 3, 4, 5>>

\* C20: push_finalizer(unique_ptr<T>) hands the destruction over in one step:
\* when the registration succeeds the unique_ptr has released the object and
\* the arena holds one pending finalizer for it, which the next clear() or
\* destroy invokes exactly once; when the registration fails the arena holds
\* no finalizer for the object and the unique_ptr deletes it, once.  The
\* object is never destroyed twice and never left undestroyed.
C20_UniquePtrTransfer ==
    [][/\ Called("push_finalizer_unique_ptr") /\ pc' = "run" =>
             LET zn  == zones[last'.z]
                 zn2 == zones'[last'.z]
             IN  IF last'.res = "ok"
                 THEN /\ last'.uptr = "released"
                      /\ nfid' = nfid + 1
                      /\ Pending(zn2, arrays') =
                            Append(Pending(zn, arrays),
                                   [fid |-> nfid + 1, kind |-> "own", data |-> EXT])
                      /\ invoked'[nfid + 1] = 0
                 ELSE /\ last'.uptr = "deleted"
                      /\ nfid' = nfid
                      /\ Pending(zn2, arrays') = Pending(zn, arrays)
                      /\ invoked' = invoked
       /\ /\ Called("clear") \/ Called("destroy")
          /\ pc' = "run"
          => \A i \in 1..zones[last'.z].m_tail :
                LET e == EntAt(arrays, zones[last'.z].m_array, i)
                IN  e.kind = "own" =>
                       /\ invoked[e.fid] = 0
                       /\ invoked'[e.fid] = 1
                       /\ Cardinality({k \in 1..Len(calls') : calls'[k] = e.fid}) = 1
                       /\ zones'[last'.z].m_tail = 0
       /\ ~(Called("clear") \/ Called("destroy")) => invoked' = invoked]_vars

\* C20 witness: four objects were handed over and are pending, not yet
\* destroyed; the fifth registration failed and its unique_ptr deleted the
\* object
C20_Witness ==
    /\ last.op = "push_finalizer_unique_ptr"
    /\ last.res = "bad_alloc"
    /\ last.uptr = "deleted"
    /\ pc = "run"
    /\ zones[last.z].m_tail = InitCap
    /\ \A i \in 1..InitCap :
          /\ EntAt(arrays, zones[last.z].m_array, i).kind = "own"
          /\ invoked[EntAt(arrays, zones[last.z].m_array, i).fid] = 0

====
